---- MODULE Spec2Model ----
(***************************************************************************)
(* Model of the PDDL and SMT metrics framework: PDDLAnalyzer               *)
(* (src/pddl_metrics.py) and SMTAnalyzer (src/smt_metrics.py).             *)
(*                                                                         *)
(* The state is one constructed analyzer: the parsed document it wraps     *)
(* (problem.actions and problem objects, or the list of asserted           *)
(* formulas), the value returned by the latest metric invocation (ret)     *)
(* and the value returned by the first invocation made on the analyzer     *)
(* (first).  Every metric method is one action.                            *)
(*                                                                         *)
(* Numbers are exact: an int or float is a reduced fraction num/den, and   *)
(* math.log2(p) is kept as the tagged value log2(num/den), whose sign is   *)
(* decided by comparing p with 1.  Floating-point rounding is not          *)
(* modelled.  A raised exception is the tagged value "error".              *)
(***************************************************************************)
EXTENDS Integers, Sequences, FiniteSets, TLC

VARIABLES analyzer, actions, objs, formulas, ret, first

vars == <<analyzer, actions, objs, formulas, ret, first>>

(* ------------------------------ bounds --------------------------------- *)

\* Largest number of operator schemas in a planning document.
MaxActions == 2
\* Largest number of objects declared directly with one type.
MaxObjs == 2
\* Largest number of assert commands in a formula document.
MaxFormulas == 2

(* ------------------------------ values --------------------------------- *)

Abs(n) == IF n < 0 THEN -n ELSE n

RECURSIVE GCD(_, _)
GCD(a, b) == IF b = 0 THEN a ELSE GCD(b, a % b)

\* A Python int.
IntV(n) == [tag |-> "int", num |-> n, den |-> 1]

\* A Python float with the exact value n/d (d > 0), reduced.
FloatV(n, d) ==
    LET g == GCD(Abs(n), d)
    IN  [tag |-> "float", num |-> n \div g, den |-> d \div g]

\* A Python bool.
BoolV(b) == [tag |-> "bool", b |-> b]

\* A raised exception.
ErrV(e) == [tag |-> "error", exc |-> e]

\* A dict from strings to ints.
DictV(m) == [tag |-> "dict", map |-> m]

IsErr(v) == v.tag = "error"

NumLess(a, b) == a.num * b.den < b.num * a.den

\* Python's a * b on numbers: an int only when both are ints.
NumMul(a, b) ==
    IF a.tag = "int" /\ b.tag = "int"
    THEN IntV(a.num * b.num)
    ELSE FloatV(a.num * b.num, a.den * b.den)

\* Python's a / b on ints: true division, ZeroDivisionError when b = 0.
TrueDiv(a, b) ==
    IF b = 0 THEN ErrV("ZeroDivisionError") ELSE FloatV(a, b)

\* Python's max(a, b): b only when it is strictly greater than a.
PyMax(a, b) ==
    IF IsErr(a) THEN a
    ELSE IF IsErr(b) THEN b
    ELSE IF NumLess(a, b) THEN b ELSE a

\* math.log2(p): ValueError for p <= 0, otherwise the value log2(num/den).
Log2(p) ==
    IF IsErr(p) THEN p
    ELSE IF p.num <= 0 THEN ErrV("ValueError")
    ELSE [tag |-> "log2", num |-> p.num, den |-> p.den]

\* The float literal 0.1 and 0.0.
Tenth == FloatV(1, 10)
Zero == FloatV(0, 1)

(* ----------------------- planning document model ----------------------- *)

\* The user types of the domain; "truck" is a subtype of "vehicle".
Types == {"vehicle", "truck"}

\* The types whose objects problem.objects(t) yields: t and its subtypes.
Compatible(t) == IF t = "vehicle" THEN {"vehicle", "truck"} ELSE {t}

\* problem.objects(t): the objects of type t, subtypes included.  objs[u] is
\* the number of objects declared with exactly the type u.
ObjectsOf(t) == UNION {{<<u, i>> : i \in 1..objs[u]} : u \in Compatible(t)}

\* problem.all_objects
AllObjects == UNION {{<<u, i>> : i \in 1..objs[u]} : u \in Types}

\* Effect values (unified_planning FNode): a boolean constant (val 1 is
\* True, val 0 is False), a numeric constant, or a computed expression.
TrueC == [type |-> "BOOL_CONSTANT", val |-> 1]
FalseC == [type |-> "BOOL_CONSTANT", val |-> 0]
IntC(n) == [type |-> "INT_CONSTANT", val |-> n]
PlusExp == [type |-> "PLUS", val |-> 0]

is_true(v) == v.type = "BOOL_CONSTANT" /\ v.val = 1
is_false(v) == v.type = "BOOL_CONSTANT" /\ v.val = 0
is_constant(v) == v.type \in {"BOOL_CONSTANT", "INT_CONSTANT", "REAL_CONSTANT"}
constant_value(v) == v.val

\* An effect assigns value to a fluent of the given type.
Eff(f, v) == [fluent |-> f, value |-> v]

\* Action schemas.  An InstantaneousAction holds a list of effects, a
\* DurativeAction a dict from timing to a list of effects, kept as the
\* sequence of its items.
Inst(params, effs) ==
    [kind |-> "InstantaneousAction", parameters |-> params, effects |-> effs]
Dur(params, items) ==
    [kind |-> "DurativeAction", parameters |-> params, effects |-> items]
At(t, effs) == [timing |-> t, list |-> effs]

\* The schemas documents are built from.
Noop == Inst(<<>>, <<>>)
Drive == Inst(<<"vehicle">>, <<Eff("bool", TrueC), Eff("bool", FalseC)>>)
Load == Inst(<<"vehicle", "truck">>,
             <<Eff("bool", TrueC), Eff("real", IntC(2)), Eff("real", PlusExp)>>)
Drain == Inst(<<"truck">>,
              <<Eff("bool", FalseC), Eff("real", IntC(0)), Eff("real", IntC(-1))>>)
Refuel == Dur(<<"vehicle">>,
              <<At("start", <<Eff("bool", TrueC)>>),
                At("end", <<Eff("bool", FalseC), Eff("real", IntC(1))>>)>>)
Idle == Dur(<<>>,
            <<At("start", <<Eff("real", IntC(-1))>>),
              At("end", <<Eff("bool", TrueC), Eff("real", PlusExp)>>)>>)

ActionPool == {Noop, Drive, Load, Drain, Refuel, Idle}

SeqsUpTo(S, n) == UNION {[1..k -> S] : k \in 0..n}

\* The planning documents an analyzer is constructed over.
PlanningDocs == SeqsUpTo(ActionPool, MaxActions)
ObjectCounts == [Types -> 0..MaxObjs]

\* All effects of an action as one list (for the fluents of the problem).
RECURSIVE Flatten(_)
Flatten(items) ==
    IF items = <<>> THEN <<>> ELSE Head(items).list \o Flatten(Tail(items))

EffectsOf(a) ==
    IF a.kind = "DurativeAction" THEN Flatten(a.effects) ELSE a.effects

\* problem.fluents, by type: the fluents the effects assign to.
FluentTypes ==
    UNION {{EffectsOf(actions[i])[j].fluent :
               j \in DOMAIN EffectsOf(actions[i])} : i \in DOMAIN actions}

\* problem.kind: the features the parsed problem uses.
ProblemKind ==
    (IF \E i \in DOMAIN actions : actions[i].kind = "DurativeAction"
     THEN {"CONTINUOUS_TIME"} ELSE {})
    \cup (IF "real" \in FluentTypes THEN {"NUMERIC_FLUENTS"} ELSE {})

(* --------------------------- PDDLAnalyzer ------------------------------ *)

supports_temporal_logic ==
    BoolV("CONTINUOUS_TIME" \in ProblemKind
          \/ "TIMED_EFFECTS" \in ProblemKind
          \/ "TIMED_GOALS" \in ProblemKind)

count_actions == IntV(Len(actions))

has_durative_actions == BoolV("CONTINUOUS_TIME" \in ProblemKind)

has_fluents ==
    LET has_numeric_fluents ==
            \/ "NUMERIC_FLUENTS" \in ProblemKind
            \/ "OBJECT_FLUENTS" \in ProblemKind
            \/ "INT_FLUENTS" \in ProblemKind
            \/ "REAL_FLUENTS" \in ProblemKind
        has_boolean_fluents == "bool" \in FluentTypes
    IN  BoolV(has_numeric_fluents \/ has_boolean_fluents)

\* Mutant: the number of objects is used as it is, without the floor of 1.
ParamFactor_NoFloor(num_objects) == num_objects

\* The floor applied to the number of objects of a parameter's type.
ParamFactor(num_objects) == IF num_objects > 1 THEN num_objects ELSE 1

\* param_combinations of one action: the loop over action.parameters.
RECURSIVE ParamCombinations(_)
ParamCombinations(params) ==
    IF params = <<>> THEN 1
    ELSE LET num_objects == Cardinality(ObjectsOf(Head(params)))
         IN  ParamFactor(num_objects) * ParamCombinations(Tail(params))

\* total_ground_operators: the loop over problem.actions.
RECURSIVE TotalGroundOperators(_)
TotalGroundOperators(acts) ==
    IF acts = <<>> THEN 0
    ELSE ParamCombinations(Head(acts).parameters)
         + TotalGroundOperators(Tail(acts))

count_ground_operators == IntV(TotalGroundOperators(actions))

\* Mutant: floor division in place of true division.
branching_factor_FloorDiv ==
    LET num_ground_ops == count_ground_operators
        num_abstract_ops == Len(actions)
    IN  IF num_abstract_ops > 0
        THEN IntV(num_ground_ops.num \div num_abstract_ops)
        ELSE IntV(1)

branching_factor ==
    LET num_ground_ops == count_ground_operators
        num_abstract_ops == Len(actions)
    IN  IF num_abstract_ops > 0
        THEN TrueDiv(num_ground_ops.num, num_abstract_ops)
        ELSE IntV(1)

\* Mutant: the division without the guard on the number of objects.
operator_density_Unguarded ==
    TrueDiv(count_ground_operators.num, Cardinality(AllObjects))

operator_density ==
    LET total_ground_ops == count_ground_operators
        num_objects == Cardinality(AllObjects)
    IN  IF num_objects > 0
        THEN TrueDiv(total_ground_ops.num, num_objects)
        ELSE IntV(1)

\* The counters of effect_ratio, a pair [pos, neg].
Counts(p, n) == [pos |-> p, neg |-> n]

\* One effect of a DurativeAction: only boolean literals are classified.
DurativeEffect(c, effect) ==
    IF is_true(effect.value) THEN Counts(c.pos + 1, c.neg)
    ELSE IF is_false(effect.value) THEN Counts(c.pos, c.neg + 1)
    ELSE c

\* One effect of an InstantaneousAction: boolean literals, then constants by
\* the sign of their value.
InstantaneousEffect(c, effect) ==
    IF is_true(effect.value) THEN Counts(c.pos + 1, c.neg)
    ELSE IF is_false(effect.value) THEN Counts(c.pos, c.neg + 1)
    ELSE IF is_constant(effect.value)
         THEN IF constant_value(effect.value) > 0
              THEN Counts(c.pos + 1, c.neg)
              ELSE Counts(c.pos, c.neg + 1)
         ELSE c

RECURSIVE DurativeList(_, _)
DurativeList(c, effs) ==
    IF effs = <<>> THEN c
    ELSE DurativeList(DurativeEffect(c, Head(effs)), Tail(effs))

RECURSIVE DurativeItems(_, _)
DurativeItems(c, items) ==
    IF items = <<>> THEN c
    ELSE DurativeItems(DurativeList(c, Head(items).list), Tail(items))

RECURSIVE InstantaneousList(_, _)
InstantaneousList(c, effs) ==
    IF effs = <<>> THEN c
    ELSE InstantaneousList(InstantaneousEffect(c, Head(effs)), Tail(effs))

\* total_pos and total_neg after the loop over problem.actions.
RECURSIVE EffectCounts(_, _)
EffectCounts(c, acts) ==
    IF acts = <<>> THEN c
    ELSE LET a == Head(acts)
             c1 == IF a.kind = "DurativeAction"
                   THEN DurativeItems(c, a.effects)
                   ELSE IF a.kind = "InstantaneousAction"
                        THEN InstantaneousList(c, a.effects)
                        ELSE c
         IN  EffectCounts(c1, Tail(acts))

\* Mutant: the ratio without the floor of 0.1.
RatioOf_NoFloor(c) ==
    LET total_neg == PyMax(IntV(1), IntV(c.neg))
    IN  TrueDiv(c.pos, total_neg.num)

\* The value effect_ratio returns for the final counters.
RatioOf(c) ==
    LET total_neg == PyMax(IntV(1), IntV(c.neg))
    IN  PyMax(Tenth, TrueDiv(c.pos, total_neg.num))

effect_ratio == RatioOf(EffectCounts(Counts(0, 0), actions))

\* The argument of math.log2 in PDDLAnalyzer.estimated_complexity.
PddlProduct ==
    LET num_ground_ops == PyMax(Tenth, count_ground_operators)
        b_factor == PyMax(Tenth, branching_factor)
        e_ratio == PyMax(Tenth, effect_ratio)
    IN  IF IsErr(num_ground_ops) THEN num_ground_ops
        ELSE IF IsErr(b_factor) THEN b_factor
        ELSE IF IsErr(e_ratio) THEN e_ratio
        ELSE NumMul(NumMul(num_ground_ops, b_factor), e_ratio)

pddl_estimated_complexity == Log2(PddlProduct)

\* The metric entries of a get_metrics dict.
Entries(d) == (DOMAIN d) \ {"tag"}

\* PDDLAnalyzer.get_metrics: the dict of all metrics, or the exception of a
\* metric that raised.
pddl_get_metrics ==
    LET d == [tag |-> "metrics",
              supports_temporal_logic |-> supports_temporal_logic,
              num_actions |-> count_actions,
              has_durative_actions |-> has_durative_actions,
              has_fluents |-> has_fluents,
              ground_operators |-> count_ground_operators,
              branching_factor |-> branching_factor,
              operator_density |-> operator_density,
              effect_ratio |-> effect_ratio,
              estimated_complexity |-> pddl_estimated_complexity]
    IN  IF \E k \in Entries(d) : IsErr(d[k])
        THEN ErrV("raised")
        ELSE d

(* ------------------------ formula document model ----------------------- *)

\* pysmt's node types in the order of their ids (FORALL is 0), which is the
\* table op_to_str reads.
NodeTypeNames ==
    <<"FORALL", "EXISTS", "AND", "OR", "NOT", "IMPLIES", "IFF", "SYMBOL",
      "FUNCTION", "REAL_CONSTANT", "BOOL_CONSTANT", "INT_CONSTANT",
      "STR_CONSTANT", "PLUS", "MINUS", "TIMES", "LE", "LT", "EQUALS", "ITE",
      "TOREAL">>

\* The id of the node type with the given name.
Ty(name) == (CHOOSE i \in DOMAIN NodeTypeNames : NodeTypeNames[i] = name) - 1

op_to_str(node_type) == NodeTypeNames[node_type + 1]

Sym(n) == [type |-> Ty("SYMBOL"), args |-> <<>>, name |-> n, num |-> 0, den |-> 1]
RealC(n, d) ==
    [type |-> Ty("REAL_CONSTANT"), args |-> <<>>, name |-> "", num |-> n, den |-> d]
BoolC(b) ==
    [type |-> Ty("BOOL_CONSTANT"), args |-> <<>>, name |-> "", num |-> b, den |-> 1]
Op(t, as) == [type |-> Ty(t), args |-> as, name |-> "", num |-> 0, den |-> 1]

\* The formula nodes of the parser's formula manager.  A node is its index;
\* args are indices of earlier nodes, so a node that is the child of several
\* parents is one shared node.
NodeTable ==
    << Sym("x"),                 \*  1  x (Real)
       Sym("a"),                 \*  2  a (Bool)
       Sym("b"),                 \*  3  b
       Sym("c"),                 \*  4  c
       RealC(0, 1),              \*  5  0.0
       RealC(3, 2),              \*  6  1.5
       BoolC(1),                 \*  7  true
       Op("LT", <<5, 1>>),       \*  8  (> x 0.0), held as 0.0 < x
       Op("OR", <<2, 3>>),       \*  9  (or a b)
       Op("AND", <<9, 9>>),      \* 10  (and (or a b) (or a b)), sharing 9
       Op("AND", <<2, 3>>),      \* 11  (and a b)
       Op("AND", <<9, 4>>),      \* 12  (and (or a b) c)
       Op("NOT", <<10>>),        \* 13  (not (and (or a b) (or a b)))
       Op("PLUS", <<1, 6>>),     \* 14  (+ x 1.5)
       Op("LT", <<14, 5>>) >>    \* 15  (< (+ x 1.5) 0.0)

\* The nodes an assert command can hold (the Boolean-typed ones).
Roots == {2, 7, 8, 9, 10, 11, 12, 13, 15}

\* The formula documents an analyzer is constructed over.
FormulaDocs == SeqsUpTo(Roots, MaxFormulas)

node_type(n) == NodeTable[n].type
args(n) == NodeTable[n].args
is_symbol(n) == node_type(n) = Ty("SYMBOL")
is_real_constant(n) == node_type(n) = Ty("REAL_CONSTANT")
node_is_constant(n) ==
    node_type(n) \in {Ty("REAL_CONSTANT"), Ty("BOOL_CONSTANT"),
                      Ty("INT_CONSTANT"), Ty("STR_CONSTANT")}

\* FNode.get_free_variables: the symbol nodes below n (no quantifiers).
RECURSIVE get_free_variables(_)
get_free_variables(n) ==
    IF is_symbol(n) THEN {n}
    ELSE UNION {get_free_variables(args(n)[i]) : i \in DOMAIN args(n)}

(* ---------------------------- SMTAnalyzer ------------------------------ *)

count_variables ==
    IntV(Cardinality(UNION {get_free_variables(formulas[i]) :
                               i \in DOMAIN formulas}))

count_constraints == IntV(Len(formulas))

\* A dict with no entries.
EmptyDict == [k \in {} |-> 0]

\* Mutant: stats kept from the previous invocation of operator_statistics.
NewStats_Kept ==
    IF ret.method = "operator_statistics" /\ ret.value.tag = "dict"
    THEN ret.value.map
    ELSE EmptyDict

\* stats as operator_statistics creates it.
NewStats == EmptyDict

\* stats[op_str] = stats.get(op_str, 0) + 1
Increment(stats, k) ==
    [j \in (DOMAIN stats) \cup {k} |->
        IF j = k
        THEN (IF k \in DOMAIN stats THEN stats[k] ELSE 0) + 1
        ELSE stats[j]]

\* _walk of operator_statistics, and its loop over node.args().
RECURSIVE StatsWalk(_, _), StatsWalkArgs(_, _)
\* Mutant: only nodes with children are counted.
StatsWalk_InteriorOnly(stats, node) ==
    StatsWalkArgs(IF args(node) = <<>> THEN stats
                  ELSE Increment(stats, op_to_str(node_type(node))),
                  args(node))
StatsWalk(stats, node) ==
    StatsWalkArgs(Increment(stats, op_to_str(node_type(node))), args(node))
StatsWalkArgs(stats, children) ==
    IF children = <<>> THEN stats
    ELSE StatsWalkArgs(StatsWalk(stats, Head(children)), Tail(children))

\* The nodes below the roots fs, each once.
RECURSIVE Reached(_)
Reached(n) == {n} \cup UNION {Reached(args(n)[i]) : i \in DOMAIN args(n)}

\* Mutant: a visited set keyed by node identity, so that a shared node is
\* counted once.
StatsOfFormulas_Visited(stats, fs) ==
    LET seen == UNION {Reached(fs[i]) : i \in DOMAIN fs}
        keys == {op_to_str(node_type(n)) : n \in seen}
    IN  [k \in (DOMAIN stats) \cup keys |->
            (IF k \in DOMAIN stats THEN stats[k] ELSE 0)
            + Cardinality({n \in seen : op_to_str(node_type(n)) = k})]

RECURSIVE StatsOfFormulas(_, _)
StatsOfFormulas(stats, fs) ==
    IF fs = <<>> THEN stats
    ELSE StatsOfFormulas(StatsWalk(stats, Head(fs)), Tail(fs))

operator_statistics == DictV(StatsOfFormulas(NewStats, formulas))

\* The nodes _walk visits from n, as a set (every node below n, n included).
RECURSIVE Below(_)
Below(n) == {n} \cup UNION {Below(args(n)[i]) : i \in DOMAIN args(n)}

Visited == UNION {Below(formulas[i]) : i \in DOMAIN formulas}

count_unique_symbols ==
    IntV(Cardinality({NodeTable[n].name : n \in {v \in Visited : is_symbol(v)}}))

\* str(node.constant_value()) is kept as the reduced fraction it prints.
count_unique_real_constants ==
    IntV(Cardinality({<<NodeTable[n].num, NodeTable[n].den>> :
                         n \in {v \in Visited : is_real_constant(v)}}))

\* max(iterable, default=0) over a set of ints.
MaxOr0(S) == IF S = {} THEN 0 ELSE CHOOSE m \in S : \A k \in S : k <= m

RECURSIVE depth(_)
\* Mutant: depth counted in edges, a symbol or constant having depth 0.
depth_Edges(node) ==
    IF node_is_constant(node) \/ is_symbol(node) THEN 0
    ELSE 1 + MaxOr0({depth(args(node)[i]) : i \in DOMAIN args(node)})
depth(node) ==
    IF node_is_constant(node) \/ is_symbol(node) THEN 1
    ELSE 1 + MaxOr0({depth(args(node)[i]) : i \in DOMAIN args(node)})

ast_depth == IntV(MaxOr0({depth(formulas[i]) : i \in DOMAIN formulas}))

\* sum(op_stats.values())
RECURSIVE SumValues(_)
SumValues(d) ==
    IF DOMAIN d = {} THEN 0
    ELSE LET k == CHOOSE j \in DOMAIN d : TRUE
         IN  d[k] + SumValues([j \in (DOMAIN d) \ {k} |-> d[j]])

\* var_count * constr_count * total_ops * depth
SmtProduct ==
    LET var_count == count_variables
        constr_count == count_constraints
        op_stats == operator_statistics
        total_ops == IntV(SumValues(op_stats.map))
        d == ast_depth
    IN  NumMul(NumMul(NumMul(var_count, constr_count), total_ops), d)

\* Mutant: the logarithm without the guard on the product.
smt_estimated_complexity_Unguarded == Log2(SmtProduct)

smt_estimated_complexity ==
    LET product == SmtProduct
    IN  IF product.num <= 0 THEN Zero ELSE Log2(product)

\* SMTAnalyzer.get_metrics
smt_get_metrics ==
    LET d == [tag |-> "metrics",
              variables |-> count_variables,
              constraints |-> count_constraints,
              operator_statistics |-> operator_statistics,
              unique_symbols |-> count_unique_symbols,
              unique_real_constants |-> count_unique_real_constants,
              ast_depth |-> ast_depth,
              estimated_complexity |-> smt_estimated_complexity]
    IN  IF \E k \in Entries(d) : IsErr(d[k])
        THEN ErrV("raised")
        ELSE d

(* --------------------------- state machine ----------------------------- *)

\* The planning and formula parts of the document the analyzer wraps.
doc == <<analyzer, actions, objs, formulas>>

\* first before any invocation, when the first invocation is recorded.
NoCall == [method |-> "none", value |-> BoolV(FALSE), again |-> FALSE]

\* first when the first invocation is not recorded.
Untracked == [method |-> "untracked", value |-> BoolV(FALSE), again |-> FALSE]

\* The documents an analyzer can be constructed over.
Constructed ==
    \/ /\ analyzer = "pddl"
       /\ actions \in PlanningDocs
       /\ objs \in ObjectCounts
       /\ formulas = <<>>
    \/ /\ analyzer = "smt"
       /\ formulas \in FormulaDocs
       /\ actions = <<>>
       /\ objs = [t \in Types |-> 0]

\* The analyzer after construction: one parsed document, no metric invoked.
Init ==
    /\ ret = [method |-> "none", value |-> BoolV(FALSE)]
    /\ first = Untracked
    /\ Constructed

\* The same, with the first invocation recorded in first, over the planning
\* documents whose types all have the same number of objects.
InitRepeat ==
    /\ ret = [method |-> "none", value |-> BoolV(FALSE)]
    /\ first = NoCall
    /\ Constructed
    /\ \A t, u \in Types : objs[t] = objs[u]

\* A metric method returns v: nothing but the returned value changes.  first
\* keeps the first invocation; first.again says that the latest invocation
\* is a later invocation of the same method.
Return(m, v) ==
    /\ ret' = [method |-> m, value |-> v]
    /\ first' = IF first.method = "none"
                THEN [method |-> m, value |-> v, again |-> FALSE]
                ELSE IF first.method = "untracked"
                     THEN first
                     ELSE [first EXCEPT !.again = (first.method = m)]
    /\ UNCHANGED doc

Call_supports_temporal_logic ==
    analyzer = "pddl" /\ Return("supports_temporal_logic", supports_temporal_logic)
Call_count_actions ==
    analyzer = "pddl" /\ Return("count_actions", count_actions)
Call_has_durative_actions ==
    analyzer = "pddl" /\ Return("has_durative_actions", has_durative_actions)
Call_has_fluents ==
    analyzer = "pddl" /\ Return("has_fluents", has_fluents)
Call_count_ground_operators ==
    analyzer = "pddl" /\ Return("count_ground_operators", count_ground_operators)
Call_branching_factor ==
    analyzer = "pddl" /\ Return("branching_factor", branching_factor)
Call_operator_density ==
    analyzer = "pddl" /\ Return("operator_density", operator_density)
Call_effect_ratio ==
    analyzer = "pddl" /\ Return("effect_ratio", effect_ratio)
Call_pddl_estimated_complexity ==
    analyzer = "pddl" /\ Return("estimated_complexity", pddl_estimated_complexity)
Call_pddl_get_metrics ==
    analyzer = "pddl" /\ Return("get_metrics", pddl_get_metrics)

Call_count_variables ==
    analyzer = "smt" /\ Return("count_variables", count_variables)
Call_count_constraints ==
    analyzer = "smt" /\ Return("count_constraints", count_constraints)
Call_operator_statistics ==
    analyzer = "smt" /\ Return("operator_statistics", operator_statistics)
Call_count_unique_symbols ==
    analyzer = "smt" /\ Return("count_unique_symbols", count_unique_symbols)
Call_count_unique_real_constants ==
    analyzer = "smt"
    /\ Return("count_unique_real_constants", count_unique_real_constants)
Call_ast_depth ==
    analyzer = "smt" /\ Return("ast_depth", ast_depth)
Call_smt_estimated_complexity ==
    analyzer = "smt" /\ Return("estimated_complexity", smt_estimated_complexity)
Call_smt_get_metrics ==
    analyzer = "smt" /\ Return("get_metrics", smt_get_metrics)

Next ==
    \/ Call_supports_temporal_logic
    \/ Call_count_actions
    \/ Call_has_durative_actions
    \/ Call_has_fluents
    \/ Call_count_ground_operators
    \/ Call_branching_factor
    \/ Call_operator_density
    \/ Call_effect_ratio
    \/ Call_pddl_estimated_complexity
    \/ Call_pddl_get_metrics
    \/ Call_count_variables
    \/ Call_count_constraints
    \/ Call_operator_statistics
    \/ Call_count_unique_symbols
    \/ Call_count_unique_real_constants
    \/ Call_ast_depth
    \/ Call_smt_estimated_complexity
    \/ Call_smt_get_metrics

Spec == Init /\ [][Next]_vars

\* Behaviours in which the first invocation is recorded.
SpecRepeat == InitRepeat /\ [][Next]_vars

(* ------------------------------- claims -------------------------------- *)

\* The latest invocation was method m of the analyzer of kind a.
Returned(a, m) == analyzer = a /\ ret.method = m

\* A number is at least another.
NumGeq(a, b) == ~NumLess(a, b)

IsNum(v) == v.tag \in {"int", "float"}
NumEq(a, b) == a.num * b.den = b.num * a.den

\* v is a finite float that is >= 0.
FiniteNonNeg(v) ==
    \/ v.tag = "log2" /\ v.num >= v.den
    \/ IsNum(v) /\ v.num >= 0

\* v is a finite number (no exception was raised).
Finite(v) == v.tag \in {"int", "float", "log2"}

(* C1 *)

\* The counters as the classification rule gives them: over every effect of
\* every schema, durative ones flattened over their timings.
RECURSIVE ClassifyAll(_, _)
ClassifyAll(c, effs) ==
    IF effs = <<>> THEN c
    ELSE LET v == Head(effs).value
             numeric == v.type \in {"INT_CONSTANT", "REAL_CONSTANT"}
             c1 == IF is_true(v) \/ (numeric /\ v.val > 0)
                   THEN Counts(c.pos + 1, c.neg)
                   ELSE IF is_false(v) \/ (numeric /\ v.val <= 0)
                        THEN Counts(c.pos, c.neg + 1)
                        ELSE c
         IN  ClassifyAll(c1, Tail(effs))

RECURSIVE ClassifiedCounts(_, _)
ClassifiedCounts(c, acts) ==
    IF acts = <<>> THEN c
    ELSE ClassifiedCounts(ClassifyAll(c, EffectsOf(Head(acts))), Tail(acts))

\* C1: when effect_ratio has run, its positive and negative counts are those
\* of the classification rule applied to every effect of every schema,
\* durative schemas included: true or a numeric constant > 0 is positive,
\* false or a numeric constant <= 0 is negative, anything else is ignored.
C1_EffectClassification ==
    Returned("pddl", "effect_ratio") =>
        EffectCounts(Counts(0, 0), actions) = ClassifiedCounts(Counts(0, 0), actions)

(* C2 *)

\* The document holding the single assertion (> x 0.0).
SingleComparison == analyzer = "smt" /\ formulas = <<8>>

ObjectsOrOne(t) ==
    LET n == Cardinality(ObjectsOf(t)) IN IF n >= 1 THEN n ELSE 1

RECURSIVE ProductUpTo(_, _)
ProductUpTo(params, j) ==
    IF j = 0 THEN 1 ELSE ObjectsOrOne(params[j]) * ProductUpTo(params, j - 1)

RECURSIVE SumUpTo(_)
SumUpTo(i) ==
    IF i = 0 THEN 0
    ELSE ProductUpTo(actions[i].parameters, Len(actions[i].parameters))
         + SumUpTo(i - 1)

\* Two schemas: one with a single parameter of a type with 3 objects, one
\* with no parameters.
TwoSchemaScenario ==
    /\ analyzer = "pddl"
    /\ actions = <<Drive, Noop>>
    /\ Cardinality(ObjectsOf("vehicle")) = 3

\* C4: count_ground_operators returns the sum over schemas of the product
\* over parameters of max(1, objects of the parameter's type); it is at
\* least the number of schemas; a type with no objects contributes factor 1;
\* the two-schema scenario gives 4.
C4_GroundOperators ==
    Returned("pddl", "count_ground_operators") =>
        /\ ret.value = IntV(SumUpTo(Len(actions)))
        /\ ret.value.num >= Len(actions)
        /\ (actions = <<Drain>> /\ objs["truck"] = 0) => ret.value = IntV(1)
        /\ TwoSchemaScenario => ret.value = IntV(4)

C4_Witness == TwoSchemaScenario /\ Returned("pddl", "count_ground_operators")

(* C5 *)

\* The number of paths from node n down to a node of type name k.
RECURSIVE Occurrences(_, _)
RECURSIVE OccurrencesIn(_, _)
Occurrences(k, n) ==
    (IF op_to_str(node_type(n)) = k THEN 1 ELSE 0) + OccurrencesIn(k, args(n))
OccurrencesIn(k, children) ==
    IF children = <<>> THEN 0
    ELSE Occurrences(k, Head(children)) + OccurrencesIn(k, Tail(children))

\* C5: operator_statistics counts a node once per path from the root of a
\* top-level formula: (and (or a b) (or a b)) with one shared (or a b) node
\* gives OR 2 and AND 1.
C5_OccurrenceCounts ==
    Returned("smt", "operator_statistics") =>
        /\ \A k \in DOMAIN ret.value.map :
               ret.value.map[k] = OccurrencesIn(k, formulas)
        /\ formulas = <<10>> =>
               ret.value.map["OR"] = 2 /\ ret.value.map["AND"] = 1

C5_Witness == Returned("smt", "operator_statistics") /\ formulas = <<10>>

(* C6 *)

\* C6: branching_factor is count_ground_operators / k for k > 0 schemas and
\* 1 for no schemas.
C6_BranchingFactor ==
    Returned("pddl", "branching_factor") =>
        LET k == Len(actions)
            g == TotalGroundOperators(actions)
        IN  /\ k > 0 => (IsNum(ret.value) /\ ret.value.num * k = g * ret.value.den)
            /\ k = 0 => (IsNum(ret.value) /\ NumEq(ret.value, IntV(1)))

C6_Witness ==
    /\ Returned("pddl", "branching_factor")
    /\ Len(actions) > 0
    /\ ret.value.den > 1

(* C7 *)

\* C7: effect_ratio is at least 0.1 for every model, also with no effects
\* or only negative ones; it is max(0.1, positive / max(1, negative)).
C7_EffectRatioFloor ==
    Returned("pddl", "effect_ratio") =>
        LET c == EffectCounts(Counts(0, 0), actions)
            d == IF c.neg >= 1 THEN c.neg ELSE 1
        IN  /\ IsNum(ret.value)
            /\ NumGeq(ret.value, Tenth)
            /\ \/ ret.value = Tenth /\ c.pos * 10 <= d
               \/ ret.value.num * d = c.pos * ret.value.den

C7_Witness ==
    /\ Returned("pddl", "effect_ratio")
    /\ actions = <<Noop>>
    /\ ret.value = Tenth

(* C8 *)

\* The number of nodes on the longest path from n to a leaf.
RECURSIVE Height(_)
Height(n) == 1 + MaxOr0({Height(args(n)[i]) : i \in DOMAIN args(n)})

\* C8: ast_depth is the maximum over the top-level formulas of the depth of
\* the root: 1 for a symbol, 2 for (and a b), 3 for (and (or a b) c), and 0
\* for no formulas.
C8_AstDepth ==
    Returned("smt", "ast_depth") =>
        /\ ret.value = IntV(MaxOr0({Height(formulas[i]) : i \in DOMAIN formulas}))
        /\ formulas = <<2>> => ret.value = IntV(1)
        /\ formulas = <<11>> => ret.value = IntV(2)
        /\ formulas = <<12>> => ret.value = IntV(3)
        /\ formulas = <<2, 12>> => ret.value = IntV(3)

C8_Witness == Returned("smt", "ast_depth") /\ formulas = <<2, 12>>

(* C9 *)

====
